---------------------------- MODULE Spec2Model ----------------------------
(***************************************************************************)
(* A model of the LPDDR5 simulation SoC of LiteDRAM                        *)
(* (litedram/phy/lpddr5/simsoc.py): the clock plan of get_clocks, the      *)
(* clock_mapping handed to DFIRateConverter.phy_wrapper, the timing table  *)
(* handed to DFITimingsChecker and the checker's per-cycle behaviour.      *)
(*                                                                         *)
(* DFIRateConverter (litedram/phy/dfi.py) and DFITimingsChecker            *)
(* (litedram/phy/model.py) are imported by simsoc.py; their definitions    *)
(* below follow the design document and are marked so.                     *)
(***************************************************************************)
EXTENDS Integers, Sequences, FiniteSets, TLC

VARIABLES
    pc,             \* position of the modelled run
    cfg,            \* arguments of the run (frequencies, ratios, table entry, profile)
    clocks,         \* the dict built by get_clocks
    clock_mapping,  \* the dict built in SimSoC.__init__
    ddrphy,         \* the PHY object returned by the wrapper class
    binding,        \* binding cycle count of the timing parameter under test
    cycle,          \* DFITimingsChecker: controller-domain cycle counter
    bank,           \* DFITimingsChecker: per-bank timing state
    rank,           \* DFITimingsChecker: rank timing state
    init_done,      \* LiteDRAMCoreControl.init_done.storage
    events,         \* ViolationEvents emitted so far
    suppressed,     \* findings computed while logging was disabled
    stream,         \* history: every command observed on the DFI bus
    last            \* history: the commands, order and gate of the latest cycle

vars == << pc, cfg, clocks, clock_mapping, ddrphy, binding, cycle, bank, rank,
           init_done, events, suppressed, stream, last >>

socVars     == << clocks, clock_mapping, ddrphy >>
checkerVars == << cycle, bank, rank, init_done, events, suppressed, stream, last >>

NoVal == 0 - 1      \* Python None / "no prior command"

Max(a, b) == IF a >= b THEN a ELSE b

--------------------------------------------------------------------------
(* Bounds of the model                                                     *)

MaxFreq  == 4       \* sys_clk_freq ranges over 1..MaxFreq (in units of a base frequency)
MaxRatio == 4       \* dfi_converter_ratio ranges over 1..MaxRatio
MaxExtraLatency == 1 \* latency a wrapper with ratio > 1 may add (not fixed by the design)

--------------------------------------------------------------------------
(* Python values: f-strings over integers, insertion-ordered dicts         *)

DigitChar(d) ==
    CASE d = 0 -> "0" [] d = 1 -> "1" [] d = 2 -> "2" [] d = 3 -> "3" [] d = 4 -> "4"
      [] d = 5 -> "5" [] d = 6 -> "6" [] d = 7 -> "7" [] d = 8 -> "8" [] d = 9 -> "9"

RECURSIVE FormatInt(_)
\* str(n) of a non-negative int, as the sequence of its decimal digits
FormatInt(n) ==
    IF n < 10 THEN << DigitChar(n) >>
    ELSE FormatInt(n \div 10) \o << DigitChar(n % 10) >>

SysName == << "s", "y", "s" >>

\* f"sys{ratio}x"
ClockName(ratio) == SysName \o FormatInt(ratio) \o << "x" >>

\* f"sys{ratio}x_180"
ClockName180(ratio) == ClockName(ratio) \o << "_", "1", "8", "0" >>

\* a dict is the sequence of its items in insertion order
DictKeys(d) == { d[i].key : i \in 1..Len(d) }

DictGet(d, k) == d[CHOOSE i \in 1..Len(d) : d[i].key = k].val

\* d[k] = v : replaces the value of an existing key in place, appends a new key
DictSet(d, k, v) ==
    IF k \in DictKeys(d)
    THEN [ i \in 1..Len(d) |-> IF d[i].key = k THEN [key |-> k, val |-> v] ELSE d[i] ]
    ELSE Append(d, [key |-> k, val |-> v])

--------------------------------------------------------------------------
(* get_clocks                                                              *)

\* the values of defs, in the order of its items: phy, ck, ck_ddr, ca_ddr, wck_ddr
ClockDefs(w, c) == << c, c, 2 * c, 4 * c, 2 * w * c >>

\* AddClockPair with the 180-degree domain left at the base frequency
AddClockPair_BaseFreq180(clks, ratio, f) ==
    LET c0 == DictSet(clks, ClockName(ratio), [freq_hz |-> ratio * f, phase_deg |-> 0])
    IN  DictSet(c0, ClockName180(ratio), [freq_hz |-> f, phase_deg |-> 180])

\* one iteration of the loop over defs.items()
AddClockPair(clks, ratio, f) ==
    LET c0 == DictSet(clks, ClockName(ratio), [freq_hz |-> ratio * f, phase_deg |-> 0])
    IN  DictSet(c0, ClockName180(ratio), [freq_hz |-> ratio * f, phase_deg |-> 180])

RECURSIVE AddClocks(_, _, _, _)
AddClocks(clks, ratios, i, f) ==
    IF i > Len(ratios) THEN clks
    ELSE AddClocks(AddClockPair(clks, ratios[i], f), ratios, i + 1, f)

get_clocks(f, w, c) ==
    AddClocks(DictSet(<< >>, SysName, [freq_hz |-> f, phase_deg |-> 0]),
              ClockDefs(w, c), 1, f)

--------------------------------------------------------------------------
(* SimSoC.__init__: clock_mapping and the wrapped PHY                      *)

\* MappedRatio with the ratios added instead of multiplied
MappedRatio_Sum(c, ratio) == c + ratio

\* the target of one mapping entry: f"sys{dfi_converter_ratio * ratio}x"
MappedRatio(c, ratio) == c * ratio

\* AddMappingPair with the 180-degree source mapped onto the 0-degree target
AddMappingPair_NoPhase(m, ratio, c) ==
    LET m0 == DictSet(m, ClockName(ratio), ClockName(MappedRatio(c, ratio)))
    IN  DictSet(m0, ClockName180(ratio), ClockName(MappedRatio(c, ratio)))

\* one iteration of "for ratio in [2, 2*wck_ck_ratio]"
AddMappingPair(m, ratio, c) ==
    LET m0 == DictSet(m, ClockName(ratio), ClockName(MappedRatio(c, ratio)))
    IN  DictSet(m0, ClockName180(ratio), ClockName180(MappedRatio(c, ratio)))

BuildClockMapping(w, c) ==
    LET m0 == DictSet(<< >>, SysName, ClockName(c))
        m1 == AddMappingPair(m0, 2, c)
    IN  AddMappingPair(m1, 2 * w, c)

PhyAttrs == { "pads", "memtype", "nranks", "databits", "addressbits", "bankbits",
              "nphases", "twck", "ser_latency", "des_latency", "out" }

\* the attributes of the inner LPDDR5SimPHY built with these constructor arguments
InnerPhy(phy_freq, w) == [ a \in PhyAttrs |-> << a, phy_freq, w >> ]

\* DFIRateConverter.phy_wrapper(...)(sys_clk_freq = ratio * f, wck_ck_ratio = w):
\* instantiates the inner engine at ratio * f, re-exposes phy_attrs unchanged,
\* applies clock_mapping; with ratio = 1 it adds no latency.
PhyWrapper(f, w, c, mapping, lat) ==
    [ ratio         |-> c,
      sys_clk_freq  |-> c * f,
      attrs         |-> [ a \in PhyAttrs |-> InnerPhy(c * f, w)[a] ],
      mapping       |-> mapping,
      extra_latency |-> lat ]


--------------------------------------------------------------------------
(* The run of main() up to the wrapped PHY                                 *)

WckCkRatios == { 2, 4 }     \* argparse choices of --wck-ck-ratio

CheckerIdle ==
    /\ cycle = 0
    /\ bank = << >>
    /\ rank = << >>
    /\ init_done = FALSE
    /\ events = { }
    /\ suppressed = { }
    /\ stream = << >>
    /\ last = << >>

SocIdle ==
    /\ clocks = << >>
    /\ clock_mapping = << >>
    /\ ddrphy = << >>

InitSoC ==
    /\ pc = "main"
    /\ cfg \in [ f : 1..MaxFreq, w : WckCkRatios, c : 1..MaxRatio ]
    /\ SocIdle
    /\ binding = NoVal
    /\ CheckerIdle

\* main(): clocks = get_clocks(sys_clk_freq, wck_ck_ratio, dfi_converter_ratio)
CallGetClocks ==
    /\ pc = "main"
    /\ clocks' = get_clocks(cfg.f, cfg.w, cfg.c)
    /\ pc' = "soc"
    /\ UNCHANGED << cfg, clock_mapping, ddrphy, binding, checkerVars >>

\* SimSoC.__init__: the clock_mapping dict
MapClocks ==
    /\ pc = "soc"
    /\ clock_mapping' = BuildClockMapping(cfg.w, cfg.c)
    /\ pc' = "mapped"
    /\ UNCHANGED << cfg, clocks, ddrphy, binding, checkerVars >>

\* SimSoC.__init__: self.submodules.ddrphy = sim_phy_cls(...)
WrapPhy ==
    /\ pc = "mapped"
    /\ \E lat \in (IF cfg.c = 1 THEN { 0 } ELSE 0..MaxExtraLatency) :
          ddrphy' = PhyWrapper(cfg.f, cfg.w, cfg.c, clock_mapping, lat)
    /\ pc' = "wrapped"
    /\ UNCHANGED << cfg, clocks, clock_mapping, binding, checkerVars >>

NextSoC == CallGetClocks \/ MapClocks \/ WrapPhy

SpecSoC == InitSoC /\ [][NextSoC]_vars

--------------------------------------------------------------------------
(* Reading a clock domain name back                                        *)

Suffix180 == << "_", "1", "8", "0" >>

HasSuffix180(n) == Len(n) >= 4 /\ SubSeq(n, Len(n) - 3, Len(n)) = Suffix180

NameBase(n) == IF HasSuffix180(n) THEN SubSeq(n, 1, Len(n) - 4) ELSE n

NameDigits(n) == SubSeq(NameBase(n), 4, Len(NameBase(n)) - 1)

DigitVal(ch) ==
    CASE ch = "0" -> 0 [] ch = "1" -> 1 [] ch = "2" -> 2 [] ch = "3" -> 3 [] ch = "4" -> 4
      [] ch = "5" -> 5 [] ch = "6" -> 6 [] ch = "7" -> 7 [] ch = "8" -> 8 [] ch = "9" -> 9

IsDigit(ch) == ch \in { "0", "1", "2", "3", "4", "5", "6", "7", "8", "9" }

RECURSIVE ParseInt(_)
ParseInt(ds) ==
    IF Len(ds) = 0 THEN 0
    ELSE 10 * ParseInt(SubSeq(ds, 1, Len(ds) - 1)) + DigitVal(ds[Len(ds)])

\* n reads sys<m>x or sys<m>x_180 with <m> a decimal number without leading zero
IsDerivedName(n) ==
    LET b == NameBase(n) IN
    /\ Len(b) >= 5
    /\ SubSeq(b, 1, 3) = SysName
    /\ b[Len(b)] = "x"
    /\ \A i \in 4..(Len(b) - 1) : IsDigit(b[i])
    /\ b[4] # "0"

NameMult(n)  == IF n = SysName THEN 1 ELSE ParseInt(NameDigits(n))

NamePhase(n) == IF HasSuffix180(n) THEN 180 ELSE 0

ClocksBuilt  == pc \in { "soc", "mapped", "wrapped" }

MappingBuilt == pc \in { "mapped", "wrapped" }

--------------------------------------------------------------------------
\* C5: every domain of get_clocks(f, w, c) has the frequency m * f for an integer
\* m, a derived domain's name sys<m>x / sys<m>x_180 embeds exactly that m (and its
\* phase), and no two domains of the plan share a name.
C5_ClockPlan ==
    ClocksBuilt =>
        /\ \A i \in 1..Len(clocks) :
              LET n == clocks[i].key
                  v == clocks[i].val
              IN  /\ n = SysName \/ IsDerivedName(n)
                  /\ v.freq_hz = NameMult(n) * cfg.f
                  /\ v.phase_deg = NamePhase(n)
        /\ \A i, j \in 1..Len(clocks) : clocks[i].key = clocks[j].key => i = j

\* the plan of a run where two roles share a multiplier (w = 2: ca_ddr and
\* wck_ddr are both 4c) and a name has two digits (sys12x)
C5_Witness ==
    /\ ClocksBuilt
    /\ cfg.w = 2 /\ cfg.c = 3
    /\ ClockName180(12) \in DictKeys(clocks)
    /\ Len(clocks) = 7

\* C10: every entry source -> target of clock_mapping has a target that is a
\* domain of get_clocks(f, w, c), keeps the source's phase, runs at c times the
\* frequency the source has in get_clocks(f, w, 1), and distinct sources have
\* distinct targets.
C10_MappingConsistent ==
    MappingBuilt =>
        /\ \A i \in 1..Len(clock_mapping) :
              LET s == clock_mapping[i].key
                  t == clock_mapping[i].val
                  base == get_clocks(cfg.f, cfg.w, 1)
              IN  /\ t \in DictKeys(clocks)
                  /\ s \in DictKeys(base)
                  /\ DictGet(clocks, t).phase_deg = DictGet(base, s).phase_deg
                  /\ NamePhase(t) = NamePhase(s)
                  /\ DictGet(clocks, t).freq_hz = cfg.c * DictGet(base, s).freq_hz
        /\ \A i, j \in 1..Len(clock_mapping) :
              clock_mapping[i].val = clock_mapping[j].val => i = j

C10_Witness ==
    /\ MappingBuilt
    /\ cfg.w = 4 /\ cfg.c = 3
    /\ Len(clock_mapping) = 5
    /\ DictGet(clock_mapping, ClockName180(8)) = ClockName180(24)

\* C7 as stated: with converter ratio 1 the wrapper adds no latency and every
\* entry of clock_mapping maps a domain to itself.
C7_IdentityMapping ==
    (pc = "wrapped" /\ cfg.c = 1) =>
        /\ ddrphy.extra_latency = 0
        /\ \A i \in 1..Len(ddrphy.mapping) : ddrphy.mapping[i].val = ddrphy.mapping[i].key

\* C7 amended: with converter ratio 1 the wrapper adds no latency, forwards the
\* inner engine's attributes unchanged, and every entry of clock_mapping maps a
\* domain to a domain of the plan with the same frequency and phase: each source
\* but "sys" to itself, and "sys" to "sys1x".
C7_SameClockMapping ==
    (pc = "wrapped" /\ cfg.c = 1) =>
        /\ ddrphy.extra_latency = 0
        /\ ddrphy.sys_clk_freq = cfg.f
        /\ ddrphy.attrs = InnerPhy(cfg.f, cfg.w)
        /\ \A i \in 1..Len(ddrphy.mapping) :
              LET s == ddrphy.mapping[i].key
                  t == ddrphy.mapping[i].val
              IN  /\ s \in DictKeys(clocks)
                  /\ t \in DictKeys(clocks)
                  /\ DictGet(clocks, t) = DictGet(clocks, s)
                  /\ s # SysName => t = s
                  /\ s = SysName => t = ClockName(1)

C7_Witness ==
    /\ pc = "wrapped"
    /\ cfg.c = 1
    /\ DictGet(ddrphy.mapping, SysName) = ClockName(1)
    /\ DictGet(ddrphy.mapping, ClockName180(2)) = ClockName180(2)

--------------------------------------------------------------------------
(* The timing table handed to DFITimingsChecker                            *)

MaxCk     == 4      \* the cycles component of a timing parameter ranges over 0..MaxCk
MaxNs     == 10     \* the nanoseconds component ranges over 0..MaxNs
MaxPhases == 2      \* nphases ranges over 1..MaxPhases

\* sys_clk_freq in MHz
ModelFreqsMHz == { 100, 250, 500, 800 }

\* Tck with the division by nphases left out
Tck_SysPeriod(f_mhz, nphases) == [ num |-> 1000, den |-> f_mhz ]

\* Tck taken from the PHY clock (nphases * sys_clk_freq) and divided by nphases again
Tck_PhyClock(f_mhz, nphases) == [ num |-> 1000, den |-> f_mhz * nphases * nphases ]

\* Tck with the system period multiplied by nphases
Tck_TimesPhases(f_mhz, nphases) == [ num |-> 1000 * nphases, den |-> f_mhz ]

\* timings["tCK"] = (1e9 / sys_clk_freq) / nphases, in ns, kept as the exact
\* fraction num / den (sys_clk_freq = f_mhz * 1e6)
Tck(f_mhz, nphases) == [ num |-> 1000, den |-> f_mhz * nphases ]

CeilDiv(a, b) == (a + b - 1) \div b

\* binding cycle requirement of a (cycles, nanoseconds) pair at clock period tck:
\* max(cycles, ceil(nanoseconds / tCK)), an absent component ignored
BindingCycles(ck, ns, tck) ==
    LET from_ck == IF ck = NoVal THEN 0 ELSE ck
        from_ns == IF ns = NoVal THEN 0 ELSE CeilDiv(ns * tck.den, tck.num)
    IN  Max(from_ck, from_ns)

InitTimings ==
    /\ pc = "table"
    /\ cfg \in { t \in [ ck : { NoVal } \cup 0..MaxCk, ns : { NoVal } \cup 0..MaxNs,
                         f_mhz : ModelFreqsMHz, nphases : 1..MaxPhases ] :
                 t.ck # NoVal \/ t.ns # NoVal }
    /\ SocIdle
    /\ binding = NoVal
    /\ CheckerIdle

\* SimSoC.__init__ builds timings; the checker converts an entry to cycles
PrepareTiming ==
    /\ pc = "table"
    /\ binding' = BindingCycles(cfg.ck, cfg.ns, Tck(cfg.f_mhz, cfg.nphases))
    /\ pc' = "prepared"
    /\ UNCHANGED << cfg, socVars, checkerVars >>

NextTimings == PrepareTiming

SpecTimings == InitTimings /\ [][NextTimings]_vars

\* n cycles of the period 1000 / (f_mhz * nphases) ns cover the pair (ck, ns)
Covers(n, t) ==
    /\ t.ck # NoVal => n >= t.ck
    /\ t.ns # NoVal => n * 1000 >= t.ns * t.f_mhz * t.nphases

\* C6: the binding cycle requirement is max(cycles, ceil(nanoseconds / tCK)), an
\* absent component ignored: it is the least cycle count that is at least
\* `cycles` and lasts at least `nanoseconds`; (3, 10 ns) at tCK = 2 ns gives 5
\* and (absent, 4 ns) at tCK = 2 ns gives 2.
C6_BindingCycles ==
    pc = "prepared" =>
        /\ binding >= 0
        /\ Covers(binding, cfg)
        /\ \A n \in 0..binding : Covers(n, cfg) => n = binding
        /\ (cfg.f_mhz * cfg.nphases = 500 /\ cfg.ck = 3 /\ cfg.ns = 10) => binding = 5
        /\ (cfg.f_mhz * cfg.nphases = 500 /\ cfg.ck = NoVal /\ cfg.ns = 4) => binding = 2

\* the table entry cycles = 3, nanoseconds = 10 at 250 MHz with two phases
\* (tCK = 2 ns), converted
C6_Witness ==
    /\ pc = "prepared"
    /\ cfg.f_mhz = 250 /\ cfg.nphases = 2
    /\ cfg.ck = 3 /\ cfg.ns = 10
    /\ binding = 5

--------------------------------------------------------------------------
(* DFITimingsChecker: configuration                                        *)

NBanks  == 4        \* banks of the profiles that activate distinct banks
MaxTime == 5        \* the run covers the tCK slots 0..MaxTime-1

RingSize == 4       \* the rank keeps the 4 most recent activate cycles

BankKinds == { "ACT", "PRE", "RD", "WR", "MWR" }
RankKinds == { "REF", "ZQCS" }
Nop == [ kind |-> "NOP", bank |-> 0 ]

\* the timing table of the modelled device, as (cycles, nanoseconds) pairs
ModelTable ==
    [ tRC   |-> [ ck |-> 3,     ns |-> 16 ],
      tRAS  |-> [ ck |-> 2,     ns |-> 6 ],
      tRP   |-> [ ck |-> 2,     ns |-> 5 ],
      tWTR  |-> [ ck |-> 3,     ns |-> 10 ],
      tCCD  |-> [ ck |-> 2,     ns |-> NoVal ],
      tFAW  |-> [ ck |-> NoVal, ns |-> 16 ],
      tREFI |-> [ ck |-> NoVal, ns |-> 12 ],
      tZQCS |-> [ ck |-> 3,     ns |-> 10 ] ]

\* timings = {"tCK": ...}; timings[name] = sdram_module.get(name), each entry
\* converted by the checker to its binding cycle count
PrepareTimings(f_mhz, nphases) ==
    [ name \in DOMAIN ModelTable |->
        BindingCycles(ModelTable[name].ck, ModelTable[name].ns, Tck(f_mhz, nphases)) ]

\* one run: the commands the controller issues, the checker's geometry and the
\* SimSoC options disable_delay and finish_after_memtest
Profile(kinds, nbanks, nphases, f_mhz, dd, fin) ==
    [ kinds |-> kinds, nbanks |-> nbanks, nphases |-> nphases, f_mhz |-> f_mhz,
      disable_delay |-> dd, finish_after_memtest |-> fin,
      timings |-> PrepareTimings(f_mhz, nphases) ]

Profiles ==
    { Profile({ "ACT", "PRE" },      2,      1, 250, FALSE, FALSE),
      Profile({ "ACT" },             NBanks, 1, 250, FALSE, FALSE),
      Profile({ "RD", "WR" },        2,      1, 250, FALSE, FALSE),
      Profile({ "RD", "WR", "MWR" }, 1,      1, 250, FALSE, FALSE),
      Profile({ "REF", "ZQCS" },     1,      1, 250, FALSE, FALSE),
      Profile({ "ACT", "PRE" },      2,      2, 125, FALSE, FALSE),
      Profile({ "ACT" },             4,      2, 125, FALSE, FALSE),
      Profile({ "ACT" },             1,      1, 250, TRUE,  FALSE),
      Profile({ "ACT" },             1,      1, 250, TRUE,  TRUE) }

\* the commands one phase can carry in a run of profile p
PhaseCommands(p) ==
    { Nop }
    \cup { [ kind |-> k, bank |-> b ] : k \in p.kinds \cap BankKinds, b \in 0..(p.nbanks - 1) }
    \cup { [ kind |-> k, bank |-> 0 ] : k \in p.kinds \cap RankKinds }

\* the orders in which the phases of one cycle can be processed
PhaseOrders(n) ==
    { o \in [ 1..n -> 0..(n - 1) ] : \A i, j \in 1..n : o[i] = o[j] => i = j }

--------------------------------------------------------------------------
(* DFITimingsChecker: one command against the timing state                 *)

BankScope(b) == << "bank", b >>
RankScope    == << "rank", 0 >>

ViolationEvent(t, scope, name, prev, req) ==
    [ cycle |-> t, scope |-> scope, name |-> name, observed |-> t - prev, required |-> req ]

\* minimum separation: the previous command is fewer than req cycles back
TooSoon(t, prev, req) == prev # NoVal /\ t - prev < req

\* maximum interval: the previous command is more than req cycles back
TooLate(t, prev, req) == prev # NoVal /\ t - prev > req

When(cond, ev) == IF cond THEN { ev } ELSE { }

RECURSIVE MaxOver(_, _)
MaxOver(f, S) ==
    IF S = { } THEN NoVal
    ELSE LET x == CHOOSE y \in S : TRUE IN Max(f[x], MaxOver(f, S \ { x }))

\* the latest write on any bank of the rank
LastWrite(st) == MaxOver([ b \in DOMAIN st.bank |-> st.bank[b].wr ], DOMAIN st.bank)

\* the latest column access of a bank
LastColumn(bs) == Max(bs.rd, bs.wr)

\* WindowStart taking the oldest entry of a full ring: a window of five activates
WindowStart_Oldest(acts) == IF Len(acts) >= RingSize THEN acts[1] ELSE NoVal

\* the activate that opens the window of four ending with a new activate
WindowStart(acts) == IF Len(acts) >= RingSize - 1 THEN acts[Len(acts) - (RingSize - 2)] ELSE NoVal

\* the findings of command cmd at cycle t against timing state st
CheckCommand(st, cmd, t, tm) ==
    LET b  == cmd.bank
        bs == st.bank[b]
    IN  CASE cmd.kind = "ACT" ->
                 When(TooSoon(t, bs.act, tm.tRC),
                      ViolationEvent(t, BankScope(b), "tRC", bs.act, tm.tRC))
                 \cup When(TooSoon(t, bs.pre, tm.tRP),
                      ViolationEvent(t, BankScope(b), "tRP", bs.pre, tm.tRP))
                 \cup When(TooSoon(t, WindowStart(st.rank.acts), tm.tFAW),
                      ViolationEvent(t, RankScope, "tFAW", WindowStart(st.rank.acts), tm.tFAW))
          [] cmd.kind = "PRE" ->
                 When(TooSoon(t, bs.act, tm.tRAS),
                      ViolationEvent(t, BankScope(b), "tRAS", bs.act, tm.tRAS))
          [] cmd.kind = "RD" ->
                 When(TooSoon(t, LastWrite(st), tm.tWTR),
                      ViolationEvent(t, RankScope, "tWTR", LastWrite(st), tm.tWTR))
                 \cup When(TooSoon(t, LastColumn(bs), tm.tCCD),
                      ViolationEvent(t, BankScope(b), "tCCD", LastColumn(bs), tm.tCCD))
          [] cmd.kind \in { "WR", "MWR" } ->
                 When(TooSoon(t, LastColumn(bs), tm.tCCD),
                      ViolationEvent(t, BankScope(b), "tCCD", LastColumn(bs), tm.tCCD))
          [] cmd.kind = "REF" ->
                 When(TooLate(t, st.rank.ref, tm.tREFI),
                      ViolationEvent(t, RankScope, "tREFI", st.rank.ref, tm.tREFI))
          [] cmd.kind = "ZQCS" ->
                 When(TooLate(t, st.rank.zq, tm.tZQCS),
                      ViolationEvent(t, RankScope, "tZQCS", st.rank.zq, tm.tZQCS))
          [] OTHER -> { }

RECURSIVE InsertSorted(_, _)
InsertSorted(s, t) ==
    IF Len(s) = 0 \/ s[Len(s)] < t THEN Append(s, t)
    ELSE Append(InsertSorted(SubSeq(s, 1, Len(s) - 1), t), s[Len(s)])

\* the ring buffer after one more activate: the RingSize most recent cycles
PushActivate(acts, t) ==
    LET s == InsertSorted(acts, t)
    IN  IF Len(s) > RingSize THEN SubSeq(s, Len(s) - RingSize + 1, Len(s)) ELSE s

\* the timing state after command cmd at cycle t
ApplyCommand(st, cmd, t) ==
    LET b  == cmd.bank
        bs == st.bank[b]
    IN  CASE cmd.kind = "ACT" ->
                 [ bank |-> [ st.bank EXCEPT ![b].act = Max(bs.act, t) ],
                   rank |-> [ st.rank EXCEPT !.acts = PushActivate(st.rank.acts, t) ] ]
          [] cmd.kind = "PRE" ->
                 [ st EXCEPT !.bank[b].pre = Max(bs.pre, t) ]
          [] cmd.kind = "RD" ->
                 [ st EXCEPT !.bank[b].rd = Max(bs.rd, t) ]
          [] cmd.kind \in { "WR", "MWR" } ->
                 [ st EXCEPT !.bank[b].wr = Max(bs.wr, t) ]
          [] cmd.kind = "REF" ->
                 [ st EXCEPT !.rank.ref = Max(st.rank.ref, t) ]
          [] cmd.kind = "ZQCS" ->
                 [ st EXCEPT !.rank.zq = Max(st.rank.zq, t) ]
          [] OTHER -> st

\* EvalState reading the state the phases processed so far have produced
EvalState_Running(snapshot, running) == running

\* the state a phase is evaluated against: the snapshot taken before the cycle,
\* not the state the phases processed before it have produced
EvalState(snapshot, running) == snapshot

RECURSIVE ProcessPhases(_, _, _, _, _, _)
\* the phases of one cycle, processed in `order`: acc.found collects the
\* findings, acc.st the state committed at the end of the cycle
ProcessPhases(snapshot, acc, cmds, order, i, ctx) ==
    IF i > Len(order) THEN acc
    ELSE LET p    == order[i]
             cmd  == cmds[p + 1]
             t    == ctx.cycle * ctx.nphases + p
             seen == EvalState(snapshot, acc.st)
         IN  ProcessPhases(snapshot,
                           [ st    |-> ApplyCommand(acc.st, cmd, t),
                             found |-> acc.found \cup CheckCommand(seen, cmd, t, ctx.tm) ],
                           cmds, order, i + 1, ctx)

\* CycleResult of a checker that stops checking and recording once it has found a violation
CycleResult_Halting(st, cmds, order, cyc, p) ==
    IF events \cup suppressed # { } THEN [ st |-> st, found |-> { } ]
    ELSE ProcessPhases(st, [ st |-> st, found |-> { } ], cmds, order, 1,
                       [ cycle |-> cyc, nphases |-> p.nphases, tm |-> p.timings ])

\* the outcome of one controller-domain cycle
CycleResult(st, cmds, order, cyc, p) ==
    ProcessPhases(st, [ st |-> st, found |-> { } ], cmds, order, 1,
                  [ cycle |-> cyc, nphases |-> p.nphases, tm |-> p.timings ])

\* LoggingEnabled without the gate on init_done
LoggingEnabled_Always(disable_delay, done) == TRUE

\* self.comb += dfi_timings_checker.logging_enabled.eq(ddrctrl.init_done.storage)
\* when disable_delay is set; otherwise the signal keeps its reset value
LoggingEnabled(disable_delay, done) == IF disable_delay THEN done ELSE TRUE

--------------------------------------------------------------------------
(* DFITimingsChecker: the run                                              *)

NoCommand == [ act |-> NoVal, pre |-> NoVal, rd |-> NoVal, wr |-> NoVal ]

InitChecker ==
    /\ pc = "run"
    /\ cfg \in Profiles
    /\ SocIdle
    /\ binding = NoVal
    /\ cycle = 0
    /\ bank = [ b \in 0..(cfg.nbanks - 1) |-> NoCommand ]
    /\ rank = [ acts |-> << >>, ref |-> NoVal, zq |-> NoVal ]
    /\ init_done = FALSE
    /\ events = { }
    /\ suppressed = { }
    /\ stream = << >>
    /\ last = << >>

RECURSIVE Observed(_, _, _, _, _)
\* the commands of one cycle as history entries, in phase order, each with the
\* value of init_done at the clock edge
Observed(cmds, p, cyc, n, done) ==
    IF p > n THEN << >>
    ELSE (IF cmds[p].kind = "NOP" THEN << >>
          ELSE << [ t |-> cyc * n + (p - 1), kind |-> cmds[p].kind,
                    bank |-> cmds[p].bank, done |-> done ] >>)
         \o Observed(cmds, p + 1, cyc, n, done)

\* one edge of the controller clock: every phase is decoded and checked, the
\* findings are emitted if logging is enabled, the state is committed; with
\* finish_after_memtest the simulation finishes at an edge that sees init_done
CheckerCycle ==
    /\ pc = "run"
    /\ (cycle + 1) * cfg.nphases <= MaxTime
    /\ \E cmds \in [ 1..cfg.nphases -> PhaseCommands(cfg) ], order \in PhaseOrders(cfg.nphases) :
          LET res  == CycleResult([ bank |-> bank, rank |-> rank ], cmds, order, cycle, cfg)
              gate == LoggingEnabled(cfg.disable_delay, init_done)
          IN  /\ bank' = res.st.bank
              /\ rank' = res.st.rank
              /\ events' = events \cup (IF gate THEN res.found ELSE { })
              /\ suppressed' = suppressed \cup (IF gate THEN { } ELSE res.found)
              /\ stream' = stream \o Observed(cmds, 1, cycle, cfg.nphases, init_done)
              /\ last' = [ cmds |-> cmds, order |-> order, gate |-> gate, found |-> res.found ]
    /\ cycle' = cycle + 1
    /\ pc' = IF cfg.finish_after_memtest /\ init_done THEN "finished" ELSE "run"
    /\ UNCHANGED << cfg, init_done, socVars, binding >>

\* software writes the init_done CSR of LiteDRAMCoreControl
WriteInitDone ==
    /\ pc = "run"
    /\ cfg.disable_delay \/ cfg.finish_after_memtest
    /\ init_done' = ~init_done
    /\ UNCHANGED << pc, cfg, socVars, binding, cycle, bank, rank, events, suppressed,
                    stream, last >>

NextChecker == CheckerCycle \/ WriteInitDone

SpecChecker == InitChecker /\ [][NextChecker]_vars

--------------------------------------------------------------------------
(* The timing constraints, stated over the history of observed commands    *)

\* the controller-domain cycle of tCK slot t
CycleOf(t) == t \div cfg.nphases

\* the constraints: a command of kind `cur` against the nth latest earlier
\* command of a kind in `prev` (on the same bank if `same`); `late` marks a
\* maximum interval, the others are minimum separations
Constraints ==
    { [ name |-> "tRC",   cur |-> { "ACT" },  prev |-> { "ACT" }, same |-> TRUE,  nth |-> 1, late |-> FALSE ],
      [ name |-> "tRP",   cur |-> { "ACT" },  prev |-> { "PRE" }, same |-> TRUE,  nth |-> 1, late |-> FALSE ],
      [ name |-> "tRAS",  cur |-> { "PRE" },  prev |-> { "ACT" }, same |-> TRUE,  nth |-> 1, late |-> FALSE ],
      [ name |-> "tFAW",  cur |-> { "ACT" },  prev |-> { "ACT" }, same |-> FALSE, nth |-> 3, late |-> FALSE ],
      [ name |-> "tWTR",  cur |-> { "RD" },   prev |-> { "WR", "MWR" }, same |-> FALSE, nth |-> 1, late |-> FALSE ],
      [ name |-> "tCCD",  cur |-> { "RD", "WR", "MWR" }, prev |-> { "RD", "WR", "MWR" }, same |-> TRUE, nth |-> 1, late |-> FALSE ],
      [ name |-> "tREFI", cur |-> { "REF" },  prev |-> { "REF" },  same |-> FALSE, nth |-> 1, late |-> TRUE ],
      [ name |-> "tZQCS", cur |-> { "ZQCS" }, prev |-> { "ZQCS" }, same |-> FALSE, nth |-> 1, late |-> TRUE ] }

\* the earlier commands a constraint pairs with command j of the history; with
\* `strict` only those of earlier controller-domain cycles
Partners(j, c, strict) ==
    { i \in 1..(j - 1) :
        /\ stream[i].kind \in c.prev
        /\ c.same => stream[i].bank = stream[j].bank
        /\ strict => CycleOf(stream[i].t) < CycleOf(stream[j].t) }

\* the cycle of the nth latest command of S (NoVal if S has fewer)
NthLatest(S, n) ==
    IF Cardinality(S) < n THEN NoVal
    ELSE stream[CHOOSE i \in S : Cardinality({ k \in S : k > i }) = n - 1].t

\* the binding cycle count of a table entry at the run's tCK: the least cycle
\* count that covers its cycles and its nanoseconds
Required(name) ==
    LET e == [ ck |-> ModelTable[name].ck, ns |-> ModelTable[name].ns,
               f_mhz |-> cfg.f_mhz, nphases |-> cfg.nphases ]
    IN  CHOOSE n \in 0..Max(e.ck, e.ns) :
            Covers(n, e) /\ \A m \in 0..(n - 1) : ~Covers(m, e)

\* command j breaks constraint c; with `atLeast` every constraint is read as
\* "separated by at least the binding cycle count"
Breaks(j, c, strict, atLeast) ==
    LET prev == NthLatest(Partners(j, c, strict), c.nth)
        gap  == stream[j].t - prev
    IN  /\ stream[j].kind \in c.cur
        /\ prev # NoVal
        /\ IF c.late /\ ~atLeast THEN gap > Required(c.name) ELSE gap < Required(c.name)

\* the events command j calls for
Expected(j, strict) ==
    { [ cycle    |-> stream[j].t,
        scope    |-> IF c.same THEN << "bank", stream[j].bank >> ELSE << "rank", 0 >>,
        name     |-> c.name,
        observed |-> stream[j].t - NthLatest(Partners(j, c, strict), c.nth),
        required |-> Required(c.name) ] : c \in { x \in Constraints : Breaks(j, x, strict, FALSE) } }

Positions == 1..Len(stream)

Running == pc \in { "run", "finished" }

EventsAt(t) == { e \in events : e.cycle = t }

\* the violation-enable signal at command j: init_done in disable_delay mode,
\* always set otherwise
Enabled(j) == cfg.disable_delay => stream[j].done

--------------------------------------------------------------------------
OnlyRowCycleBroken(j, strict) ==
    LET rc == CHOOSE c \in Constraints : c.name = "tRC" IN
    /\ Enabled(j)
    /\ Breaks(j, rc, strict, FALSE)
    /\ \A c \in Constraints : Breaks(j, c, FALSE, FALSE) => c.name = "tRC"
    /\ \A k \in Positions \ { j } : \A c \in Constraints : ~Breaks(k, c, FALSE, FALSE)

WindowOfFour(j) ==
    LET acts == { i \in 1..(j - 1) : stream[i].kind = "ACT" }
        w    == { i \in acts : Cardinality({ k \in acts : k > i }) < 3 }
    IN  IF stream[j].kind = "ACT" /\ Cardinality(w) = 3
           /\ Cardinality({ stream[i].bank : i \in w \cup { j } }) = 4
        THEN w ELSE { }

FawEventAt(t) == \E e \in events : e.cycle = t /\ e.name = "tFAW" /\ e.scope = << "rank", 0 >>

C9_PhaseOrderIndependent ==
    [][ cycle' = cycle + 1 =>
          /\ \A o \in PhaseOrders(cfg.nphases) :
                LET r == CycleResult([ bank |-> bank, rank |-> rank ], last'.cmds, o, cycle, cfg)
                IN  /\ r.st.bank = bank'
                    /\ r.st.rank = rank'
                    /\ r.found = last'.found
          /\ last'.found =
                UNION { Expected(j, TRUE)' : j \in { k \in 1..Len(stream') : k > Len(stream) } }
      ]_vars

\* a two-phase cycle processed phase 1 first, both phases activating the bank
\* activated in the cycle before
C9_Witness ==
    /\ pc = "run"
    /\ cycle = 2
    /\ cfg.nphases = 2
    /\ last.order = << 1, 0 >>
    /\ last.cmds[1].kind = "ACT" /\ last.cmds[2].kind = "ACT"
    /\ last.cmds[1].bank = last.cmds[2].bank
    /\ Cardinality(last.found) = 2

==========================================================================
